---- MODULE Spec2Model ----
(***************************************************************************)
(* r-shquote: POSIX shell quote() and unquote() (src/src/lib.rs).         *)
(*                                                                         *)
(* A string is a sequence of characters; a character is a one-token       *)
(* string.  quote() is modelled as one action (it is one straight-line    *)
(* function); unquote() is modelled as the scan it is: one action per     *)
(* match arm of its loops, over the shared cursor                         *)
(* source.char_indices().enumerate().                                     *)
(***************************************************************************)
EXTENDS Naturals, Sequences, FiniteSets

VARIABLES
    input,    \* the caller's string
    quoted,   \* the value returned by quote(input), or NotCalled
    source,   \* the argument of the running unquote() call
    cursor,   \* Enumerate<CharIndices>: idx = characters consumed, pos = bytes consumed
    acc,      \* the accumulator of the running call
    mode,     \* where control is: "start", "plain", "single", "double", "done"
    open,     \* (next_idx, next_pos) bound by the arm that opened the running sub-parser
    consumed, \* characters consumed by the last step of the scan
    reads,    \* number of cursor.next() calls made by the running unquote() call
    result    \* the value returned by unquote(), or NoResult

vars == <<input, quoted, source, cursor, acc, mode, open, consumed, reads, result>>

---------------------------------------------------------------------------
(* Bounds *)

MaxLen == 5

---------------------------------------------------------------------------
(* Characters *)

SQ == "'"
DQ == "\""
BS == "\\"
NL == "\n"
BT == "backtick"
DL == "$"
\* an ordinary one-byte character and an ordinary two-byte character
LetterA == "a"
EAcute == "U+00E9"

Chars == {SQ, DQ, BS, NL, BT, DL, LetterA, EAcute}

\* char::len_utf8 of the characters of the alphabet, as CharIndices adds it up
Utf8Len(c) == IF c = EAcute THEN 2 ELSE 1

Strings(n) == UNION {[1..k -> Chars] : k \in 0..n}

RECURSIVE ByteLen(_)
\* str::len(): the UTF-8 length of a string
ByteLen(s) == IF s = <<>> THEN 0 ELSE Utf8Len(Head(s)) + ByteLen(Tail(s))

---------------------------------------------------------------------------
(* quote() *)

RECURSIVE SplitFrom(_, _)
\* source.split('\''): the segments between single quotes, in order; cur is the
\* segment being collected.  n separators give n+1 segments.
SplitFrom(s, cur) ==
    IF s = <<>> THEN <<cur>>
    ELSE IF Head(s) = SQ THEN <<cur>> \o SplitFrom(Tail(s), <<>>)
    ELSE SplitFrom(Tail(s), Append(cur, Head(s)))

\* faulty variant: a split that leaves out the empty segments
SplitSkipEmpty(s) == SelectSeq(SplitFrom(s, <<>>), LAMBDA part : part # <<>>)

Split(s) == SplitFrom(s, <<>>)

\* faulty variant: the separator without its backslash
QuoteSeparatorNoBackslash == <<SQ, SQ, SQ>>

\* the string literal "\'\\\'\'" pushed between two parts
QuoteSeparator == <<SQ, BS, SQ, SQ>>

RECURSIVE Fold(_, _)
\* parts.fold(&mut acc, |acc, part| { push_str(separator); push_str(part) })
Fold(a, parts) ==
    IF parts = <<>> THEN a
    ELSE Fold(a \o QuoteSeparator \o Head(parts), Tail(parts))

QuoteStr(s) ==
    LET parts == Split(s)
        acc0 == <<SQ>>
        acc1 == IF parts # <<>> THEN acc0 \o Head(parts) ELSE acc0
        acc2 == Fold(acc1, IF parts # <<>> THEN Tail(parts) ELSE <<>>)
    IN  Append(acc2, SQ)

---------------------------------------------------------------------------
(* Results *)

NotCalled == <<"<not called>">>
NoResult == [kind |-> "None"]
NoOpen == [idx |-> 0, pos |-> 0]

Ok(a) == [kind |-> "Ok", value |-> a]

\* faulty variant: the error carries the position the scan stopped at
UnterminatedSingleQuoteAtCursor(o) ==
    [kind |-> "UnterminatedSingleQuote", char_cursor |-> cursor.idx, byte_cursor |-> cursor.pos]

UnterminatedSingleQuote(o) ==
    [kind |-> "UnterminatedSingleQuote", char_cursor |-> o.idx, byte_cursor |-> o.pos]

\* faulty variant: both fields carry the character index
UnterminatedDoubleQuoteCharOnly(o) ==
    [kind |-> "UnterminatedDoubleQuote", char_cursor |-> o.idx, byte_cursor |-> o.idx]

UnterminatedDoubleQuote(o) ==
    [kind |-> "UnterminatedDoubleQuote", char_cursor |-> o.idx, byte_cursor |-> o.pos]

---------------------------------------------------------------------------
(* The cursor *)

\* cursor.next() is Some(..)
HasNext(cur) == cur.idx < Len(source)

\* the character cursor.next() yields
Peek(cur) == source[cur.idx + 1]

\* faulty variant: the byte offset advances by one for every character
AdvanceOneByte(cur, c) == [idx |-> cur.idx + 1, pos |-> cur.pos + 1]

\* the cursor after cursor.next() yielded character c
Advance(cur, c) == [idx |-> cur.idx + 1, pos |-> cur.pos + Utf8Len(c)]

---------------------------------------------------------------------------
(* Initial state and the calls *)

Init ==
    /\ input \in Strings(MaxLen)
    /\ quoted = NotCalled
    /\ source = <<>>
    /\ cursor = NoOpen
    /\ acc = <<>>
    /\ mode = "start"
    /\ open = NoOpen
    /\ consumed = 0
    /\ reads = 0
    /\ result = NoResult

\* quote(input)
Quote ==
    /\ mode = "start"
    /\ quoted = NotCalled
    /\ quoted' = QuoteStr(input)
    /\ UNCHANGED <<input, source, cursor, acc, mode, open, consumed, reads, result>>

\* unquote(source) up to its loop: the empty accumulator and a fresh cursor.
\* It is called on the caller's string, or on what quote() returned for it.
UnquoteBegin ==
    /\ mode = "start"
    /\ source' = IF quoted = NotCalled THEN input ELSE quoted
    /\ acc' = <<>>
    /\ cursor' = [idx |-> 0, pos |-> 0]
    /\ mode' = "plain"
    /\ open' = NoOpen
    /\ consumed' = 0
    /\ reads' = 0
    /\ UNCHANGED <<input, quoted, result>>

---------------------------------------------------------------------------
(* unquote(): the top-level loop *)

\* next_ch == '\'': the opening position is bound and unquote_open_single() entered
TopSingle ==
    /\ mode = "plain"
    /\ HasNext(cursor)
    /\ Peek(cursor) = SQ
    /\ open' = cursor
    /\ cursor' = Advance(cursor, SQ)
    /\ mode' = "single"
    /\ consumed' = 1
    /\ reads' = reads + 1
    /\ UNCHANGED <<input, quoted, source, acc, result>>

\* next_ch == '"': the opening position is bound and unquote_open_double() entered
TopDouble ==
    /\ mode = "plain"
    /\ HasNext(cursor)
    /\ Peek(cursor) = DQ
    /\ open' = cursor
    /\ cursor' = Advance(cursor, DQ)
    /\ mode' = "double"
    /\ consumed' = 1
    /\ reads' = reads + 1
    /\ UNCHANGED <<input, quoted, source, acc, result>>

\* faulty variant: the escaped newline is pushed like any other character
EscapeOutputKeepsNewline(a, esc_ch) == Append(a, esc_ch)

\* what unquote_open_escape() pushes for the character after the backslash
EscapeOutput(a, esc_ch) == IF esc_ch # NL THEN Append(a, esc_ch) ELSE a

\* faulty variant: a backslash with nothing after it is pushed
TopEscapeKeepsTrailing ==
    /\ mode = "plain"
    /\ HasNext(cursor)
    /\ Peek(cursor) = BS
    /\ LET after == Advance(cursor, BS)
       IN  IF HasNext(after)
           THEN /\ acc' = EscapeOutput(acc, Peek(after))
                /\ cursor' = Advance(after, Peek(after))
                /\ consumed' = 2
           ELSE /\ acc' = Append(acc, BS)
                /\ cursor' = after
                /\ consumed' = 1
    /\ reads' = reads + 2
    /\ UNCHANGED <<input, quoted, source, mode, open, result>>

\* faulty variant: an escaped newline carries the escape over to the character after it
TopEscapeSkipsNewline ==
    /\ mode = "plain"
    /\ HasNext(cursor)
    /\ Peek(cursor) = BS
    /\ LET after == Advance(cursor, BS)
           after2 == Advance(after, NL)
       IN  IF HasNext(after) /\ Peek(after) = NL /\ HasNext(after2)
           THEN /\ acc' = Append(acc, Peek(after2))
                /\ cursor' = Advance(after2, Peek(after2))
                /\ consumed' = 3
                /\ reads' = reads + 3
           ELSE IF HasNext(after)
           THEN /\ acc' = EscapeOutput(acc, Peek(after))
                /\ cursor' = Advance(after, Peek(after))
                /\ consumed' = 2
                /\ reads' = reads + 2
           ELSE /\ acc' = acc
                /\ cursor' = after
                /\ consumed' = 1
                /\ reads' = reads + 2
    /\ UNCHANGED <<input, quoted, source, mode, open, result>>

\* next_ch == '\\': unquote_open_escape() reads one more character, if there is one
TopEscape ==
    /\ mode = "plain"
    /\ HasNext(cursor)
    /\ Peek(cursor) = BS
    /\ LET after == Advance(cursor, BS)
       IN  IF HasNext(after)
           THEN /\ acc' = EscapeOutput(acc, Peek(after))
                /\ cursor' = Advance(after, Peek(after))
                /\ consumed' = 2
           ELSE /\ acc' = acc
                /\ cursor' = after
                /\ consumed' = 1
    /\ reads' = reads + 2
    /\ UNCHANGED <<input, quoted, source, mode, open, result>>

\* faulty variant: a bare newline is dropped
TopCharDropsNewline ==
    /\ mode = "plain"
    /\ HasNext(cursor)
    /\ Peek(cursor) \notin {SQ, DQ, BS}
    /\ acc' = (IF Peek(cursor) = NL THEN acc ELSE Append(acc, Peek(cursor)))
    /\ cursor' = Advance(cursor, Peek(cursor))
    /\ consumed' = 1
    /\ reads' = reads + 1
    /\ UNCHANGED <<input, quoted, source, mode, open, result>>

\* any other character is pushed
TopChar ==
    /\ mode = "plain"
    /\ HasNext(cursor)
    /\ Peek(cursor) \notin {SQ, DQ, BS}
    /\ acc' = Append(acc, Peek(cursor))
    /\ cursor' = Advance(cursor, Peek(cursor))
    /\ consumed' = 1
    /\ reads' = reads + 1
    /\ UNCHANGED <<input, quoted, source, mode, open, result>>

\* None: break Ok(acc)
TopEnd ==
    /\ mode = "plain"
    /\ ~HasNext(cursor)
    /\ result' = Ok(acc)
    /\ mode' = "done"
    /\ consumed' = 0
    /\ reads' = reads + 1
    /\ UNCHANGED <<input, quoted, source, cursor, acc, open>>

---------------------------------------------------------------------------
(* unquote_open_single() *)

\* c == '\'': return true, the top-level loop goes on
SingleClose ==
    /\ mode = "single"
    /\ HasNext(cursor)
    /\ Peek(cursor) = SQ
    /\ cursor' = Advance(cursor, SQ)
    /\ mode' = "plain"
    /\ consumed' = 1
    /\ reads' = reads + 1
    /\ UNCHANGED <<input, quoted, source, acc, open, result>>

\* faulty variant: a backslash inside single quotes escapes the character after it
SingleCharHonoursBackslash ==
    /\ mode = "single"
    /\ HasNext(cursor)
    /\ Peek(cursor) # SQ
    /\ LET after == Advance(cursor, Peek(cursor))
       IN  IF Peek(cursor) = BS /\ HasNext(after)
           THEN /\ acc' = Append(acc, Peek(after))
                /\ cursor' = Advance(after, Peek(after))
                /\ consumed' = 2
                /\ reads' = reads + 2
           ELSE /\ acc' = Append(acc, Peek(cursor))
                /\ cursor' = after
                /\ consumed' = 1
                /\ reads' = reads + 1
    /\ UNCHANGED <<input, quoted, source, mode, open, result>>

\* any other character is pushed
SingleChar ==
    /\ mode = "single"
    /\ HasNext(cursor)
    /\ Peek(cursor) # SQ
    /\ acc' = Append(acc, Peek(cursor))
    /\ cursor' = Advance(cursor, Peek(cursor))
    /\ consumed' = 1
    /\ reads' = reads + 1
    /\ UNCHANGED <<input, quoted, source, mode, open, result>>

\* faulty variant: the for loop ends and the function returns true
SingleEndReturnsTrue ==
    /\ mode = "single"
    /\ ~HasNext(cursor)
    /\ mode' = "plain"
    /\ consumed' = 0
    /\ reads' = reads + 1
    /\ UNCHANGED <<input, quoted, source, cursor, acc, open, result>>

\* the for loop ends: return false, and unquote() breaks with the error
SingleEnd ==
    /\ mode = "single"
    /\ ~HasNext(cursor)
    /\ result' = UnterminatedSingleQuote(open)
    /\ mode' = "done"
    /\ consumed' = 0
    /\ reads' = reads + 1
    /\ UNCHANGED <<input, quoted, source, cursor, acc, open>>

---------------------------------------------------------------------------
(* unquote_open_double() *)

\* faulty variant: the double quote is missing from the first inner arm
KnownEscapesNoQuote == {BS, BT, DL, NL}

\* the characters of the first inner arm: the known escape sequences
KnownEscapes == {DQ, BS, BT, DL, NL}

\* faulty variant: the backslash of an unknown sequence is pushed as the two-character "\\\\"
DoubleEscapeOutputDoubled(a, esc_ch) ==
    IF esc_ch \in KnownEscapes
    THEN Append(a, esc_ch)
    ELSE Append(Append(Append(a, BS), BS), esc_ch)

\* faulty variant: the backslash of an unknown sequence is dropped
DoubleEscapeOutputDropsBackslash(a, esc_ch) == Append(a, esc_ch)

\* what the inner match pushes for the character after the backslash
DoubleEscapeOutput(a, esc_ch) ==
    IF esc_ch \in KnownEscapes
    THEN Append(a, esc_ch)
    ELSE Append(Append(a, BS), esc_ch)

\* inner_ch == '"': return true, the top-level loop goes on
DoubleClose ==
    /\ mode = "double"
    /\ HasNext(cursor)
    /\ Peek(cursor) = DQ
    /\ cursor' = Advance(cursor, DQ)
    /\ mode' = "plain"
    /\ consumed' = 1
    /\ reads' = reads + 1
    /\ UNCHANGED <<input, quoted, source, acc, open, result>>

\* inner_ch == '\\' and a character follows it
DoubleEscape ==
    /\ mode = "double"
    /\ HasNext(cursor)
    /\ Peek(cursor) = BS
    /\ HasNext(Advance(cursor, BS))
    /\ LET after == Advance(cursor, BS)
       IN  /\ acc' = DoubleEscapeOutput(acc, Peek(after))
           /\ cursor' = Advance(after, Peek(after))
    /\ consumed' = 2
    /\ reads' = reads + 2
    /\ UNCHANGED <<input, quoted, source, mode, open, result>>

\* faulty variant: a backslash with nothing after it is dropped, as at the top level
DoubleEscapeEndDropped ==
    /\ mode = "double"
    /\ HasNext(cursor)
    /\ Peek(cursor) = BS
    /\ ~HasNext(Advance(cursor, BS))
    /\ cursor' = Advance(cursor, BS)
    /\ mode' = "plain"
    /\ consumed' = 1
    /\ reads' = reads + 2
    /\ UNCHANGED <<input, quoted, source, acc, open, result>>

\* inner_ch == '\\' and the inner cursor.next() is None: return false
DoubleEscapeEnd ==
    /\ mode = "double"
    /\ HasNext(cursor)
    /\ Peek(cursor) = BS
    /\ ~HasNext(Advance(cursor, BS))
    /\ cursor' = Advance(cursor, BS)
    /\ result' = UnterminatedDoubleQuote(open)
    /\ mode' = "done"
    /\ consumed' = 1
    /\ reads' = reads + 2
    /\ UNCHANGED <<input, quoted, source, acc, open>>

\* faulty variant: a single quote inside double quotes opens a single-quoted sequence
DoubleCharOpensSingle ==
    /\ mode = "double"
    /\ HasNext(cursor)
    /\ Peek(cursor) \notin {DQ, BS}
    /\ IF Peek(cursor) = SQ
       THEN /\ mode' = "single"
            /\ open' = cursor
            /\ acc' = acc
       ELSE /\ acc' = Append(acc, Peek(cursor))
            /\ UNCHANGED <<mode, open>>
    /\ cursor' = Advance(cursor, Peek(cursor))
    /\ consumed' = 1
    /\ reads' = reads + 1
    /\ UNCHANGED <<input, quoted, source, result>>

\* any other character is pushed
DoubleChar ==
    /\ mode = "double"
    /\ HasNext(cursor)
    /\ Peek(cursor) \notin {DQ, BS}
    /\ acc' = Append(acc, Peek(cursor))
    /\ cursor' = Advance(cursor, Peek(cursor))
    /\ consumed' = 1
    /\ reads' = reads + 1
    /\ UNCHANGED <<input, quoted, source, mode, open, result>>

\* None: return false, and unquote() breaks with the error
DoubleEnd ==
    /\ mode = "double"
    /\ ~HasNext(cursor)
    /\ result' = UnterminatedDoubleQuote(open)
    /\ mode' = "done"
    /\ consumed' = 0
    /\ reads' = reads + 1
    /\ UNCHANGED <<input, quoted, source, cursor, acc, open>>

---------------------------------------------------------------------------
(* Specification *)

Next ==
    \/ Quote
    \/ UnquoteBegin
    \/ TopSingle
    \/ TopDouble
    \/ TopEscape
    \/ TopChar
    \/ TopEnd
    \/ SingleClose
    \/ SingleChar
    \/ SingleEnd
    \/ DoubleClose
    \/ DoubleEscape
    \/ DoubleEscapeEnd
    \/ DoubleChar
    \/ DoubleEnd

Spec == Init /\ [][Next]_vars

---------------------------------------------------------------------------
(* unquote() as a function of its argument *)

RECURSIVE ScanFrom(_, _, _, _, _)
\* The rest of unquote(s) from cursor cur with accumulator a, control in m
\* ("plain": the top-level loop, "single": unquote_open_single(), "double":
\* unquote_open_double()) and o the opening position bound by the running quote arm.
ScanFrom(s, cur, a, m, o) ==
    LET has == cur.idx < Len(s)
        ch == s[cur.idx + 1]
        after == Advance(cur, ch)
        has2 == after.idx < Len(s)
        ch2 == s[after.idx + 1]
    IN  CASE m = "plain" ->
              IF ~has THEN Ok(a)
              ELSE IF ch = SQ THEN ScanFrom(s, after, a, "single", cur)
              ELSE IF ch = DQ THEN ScanFrom(s, after, a, "double", cur)
              ELSE IF ch = BS
                   THEN IF has2
                        THEN ScanFrom(s, Advance(after, ch2), EscapeOutput(a, ch2), "plain", o)
                        ELSE ScanFrom(s, after, a, "plain", o)
              ELSE ScanFrom(s, after, Append(a, ch), "plain", o)
          [] m = "single" ->
              IF ~has THEN UnterminatedSingleQuote(o)
              ELSE IF ch = SQ THEN ScanFrom(s, after, a, "plain", o)
              ELSE ScanFrom(s, after, Append(a, ch), "single", o)
          [] m = "double" ->
              IF ~has THEN UnterminatedDoubleQuote(o)
              ELSE IF ch = DQ THEN ScanFrom(s, after, a, "plain", o)
              ELSE IF ch = BS
                   THEN IF has2
                        THEN ScanFrom(s, Advance(after, ch2), DoubleEscapeOutput(a, ch2),
                                      "double", o)
                        ELSE UnterminatedDoubleQuote(o)
              ELSE ScanFrom(s, after, Append(a, ch), "double", o)

\* unquote(s)
UnquoteStr(s) == ScanFrom(s, [idx |-> 0, pos |-> 0], <<>>, "plain", NoOpen)

---------------------------------------------------------------------------
(* Vocabulary of the properties *)

IsErr(r) == r.kind \in {"UnterminatedSingleQuote", "UnterminatedDoubleQuote"}

IsOk(r) == r.kind = "Ok"

\* the scan of unquote(source) has returned
Returned == mode = "done"

\* the running unquote() call is the one of unquote(quote(input))
RoundTripCall == quoted # NotCalled /\ mode # "start"

\* the first k characters of s
Prefix(s, k) == SubSeq(s, 1, k)

\* number of occurrences of character c in s
Count(s, c) == Cardinality({i \in 1..Len(s) : s[i] = c})

RECURSIVE LexMode(_, _)
\* The lexical mode of the shell grammar in which character k of s is read
\* (k = Len(s) + 1: the mode in which the end of s is met): "plain", "single",
\* "double", and "escape" / "double-escape" for the character after a backslash.
LexMode(s, k) ==
    IF k = 1 THEN "plain"
    ELSE LET m == LexMode(s, k - 1)
             c == s[k - 1]
         IN  CASE m = "plain" ->
                    IF c = SQ THEN "single"
                    ELSE IF c = DQ THEN "double"
                    ELSE IF c = BS THEN "escape"
                    ELSE "plain"
               [] m = "escape" -> "plain"
               [] m = "single" -> IF c = SQ THEN "plain" ELSE "single"
               [] m = "double" ->
                    IF c = DQ THEN "plain"
                    ELSE IF c = BS THEN "double-escape"
                    ELSE "double"
               [] m = "double-escape" -> "double"

\* character k of s is a quote that opens a quoted sequence at the top level
OpensQuote(s, k) == LexMode(s, k) = "plain" /\ s[k] \in {SQ, DQ}

\* the quoted sequence opened by character k of s is still open at the end of s
NeverClosed(s, k) == \A j \in (k + 1)..(Len(s) + 1) : LexMode(s, j) # "plain"

---------------------------------------------------------------------------
(* C1: round trip.  For every string s, unquote(quote(s)) succeeds and    *)
(* returns exactly s.                                                      *)

C1_RoundTrip == (RoundTripCall /\ Returned) => result = Ok(input)

\* the round trip of a string with a single quote, a double quote, a backslash
\* and a newline in it has returned
C1_Witness ==
    /\ RoundTripCall
    /\ Returned
    /\ {SQ, DQ, BS, NL} \subseteq {input[i] : i \in 1..Len(input)}

---------------------------------------------------------------------------
(* C2: whenever unquote fails, the error names the kind of the quote that *)
(* was never closed, and its char_cursor / byte_cursor are the character  *)
(* index and byte offset of that top-level opening quote: not the end of  *)
(* the input and not an earlier quote that was closed.                    *)

C2_ErrorAtOpeningQuote ==
    (Returned /\ IsErr(result)) =>
        LET k == result.char_cursor + 1
        IN  /\ k <= Len(source)
            /\ OpensQuote(source, k)
            /\ source[k] = (IF result.kind = "UnterminatedSingleQuote" THEN SQ ELSE DQ)
            /\ NeverClosed(source, k)
            /\ result.byte_cursor = ByteLen(Prefix(source, k - 1))

\* a closed single-quoted two-byte character, then a single quote left open
C2_Witness ==
    /\ Returned
    /\ Len(source) >= 4
    /\ Prefix(source, 4) = <<SQ, EAcute, SQ, SQ>>
    /\ result = [kind |-> "UnterminatedSingleQuote", char_cursor |-> 3, byte_cursor |-> 4]

---------------------------------------------------------------------------
(* C3: inside double quotes a backslash followed by a newline produces no *)
(* output (backslash and newline are both dropped); followed by a double  *)
(* quote, a backslash, a backtick or a dollar it appends exactly that one *)
(* character.                                                              *)

\* the scan is in double-quote mode and reads a backslash followed by esc_ch
ReadsDoubleEscape(esc_ch) ==
    /\ mode = "double"
    /\ HasNext(cursor)
    /\ Peek(cursor) = BS
    /\ HasNext(Advance(cursor, BS))
    /\ Peek(Advance(cursor, BS)) = esc_ch

C3_EscapedNewlineVanishes ==
    [][/\ ReadsDoubleEscape(NL) => acc' = acc
       /\ \A c \in {DQ, BS, BT, DL} : ReadsDoubleEscape(c) => acc' = Append(acc, c)]_vars

---------------------------------------------------------------------------
(* C4: the accumulator never holds more bytes than the scan has consumed, *)
(* in every mode; so a successful output is never longer in bytes than    *)
(* the input.                                                              *)

C4_OutputNotLonger ==
    /\ ByteLen(acc) <= ByteLen(Prefix(source, cursor.idx))
    /\ (Returned /\ IsOk(result)) => ByteLen(result.value) <= ByteLen(source)

\* an ineffective escape inside double quotes has just been copied with its backslash
C4_Witness ==
    /\ mode = "double"
    /\ consumed = 2
    /\ cursor.idx >= 3
    /\ source[cursor.idx - 1] = BS
    /\ source[cursor.idx] = EAcute
    /\ Len(acc) >= 2
    /\ SubSeq(acc, Len(acc) - 1, Len(acc)) = <<BS, EAcute>>
    /\ ByteLen(acc) = ByteLen(Prefix(source, cursor.idx)) - 1

---------------------------------------------------------------------------
(* C5: quote is total; quote(s) is a single quote, s with each of its k   *)
(* single quotes replaced by the four characters ' \ ' ' and every other  *)
(* character unchanged, and a closing single quote: Len(s) + 2 + 3k       *)
(* characters.                                                             *)

RECURSIVE ReplaceQuotes(_)
\* s with every single quote replaced by the four characters ' \ ' '
ReplaceQuotes(s) ==
    IF s = <<>> THEN <<>>
    ELSE (IF Head(s) = SQ THEN <<SQ, BS, SQ, SQ>> ELSE <<Head(s)>>) \o ReplaceQuotes(Tail(s))

C5_QuoteShape ==
    /\ (mode = "start" /\ quoted = NotCalled) => ENABLED Quote
    /\ quoted # NotCalled =>
        /\ quoted = <<SQ>> \o ReplaceQuotes(input) \o <<SQ>>
        /\ Len(quoted) = Len(input) + 2 + 3 * Count(input, SQ)

\* quote of a lone single quote has returned its six characters
C5_Witness ==
    /\ input = <<SQ>>
    /\ quoted = <<SQ, SQ, BS, SQ, SQ, SQ>>

---------------------------------------------------------------------------
(* C6: unquote fails if and only if the input is exhausted inside a       *)
(* single-quoted or a double-quoted sequence (directly after a backslash  *)
(* inside double quotes included); exhausted in plain mode it returns the *)
(* accumulator.  No escape sequence is an error by itself, and the only   *)
(* error kinds are the two unterminated-quote kinds.                       *)

\* the lexical mode in which the end of s is met
EndMode(s) == LexMode(s, Len(s) + 1)

C6_FailsIffUnterminated ==
    Returned =>
        /\ cursor.idx = Len(source)
        /\ result.kind \in {"Ok", "UnterminatedSingleQuote", "UnterminatedDoubleQuote"}
        /\ result.kind = "UnterminatedSingleQuote" <=> EndMode(source) = "single"
        /\ result.kind = "UnterminatedDoubleQuote"
              <=> EndMode(source) \in {"double", "double-escape"}
        /\ IsOk(result) <=> EndMode(source) \in {"plain", "escape"}
        /\ IsOk(result) => result.value = acc

\* a call has succeeded on an input with an unknown escape sequence inside double quotes
C6_Witness ==
    /\ Returned
    /\ IsOk(result)
    /\ \E i \in 1..(Len(source) - 1) :
          /\ source[i] = BS
          /\ LexMode(source, i) = "double"
          /\ source[i + 1] \notin KnownEscapes

---------------------------------------------------------------------------
(* C7: an input that ends with a backslash inside an open double-quoted   *)
(* sequence fails with UnterminatedDoubleQuote at the position of the     *)
(* opening double quote; it never succeeds.                                *)

\* s ends with a backslash read inside a double-quoted sequence
EndsWithBackslashInDouble(s) ==
    /\ Len(s) >= 2
    /\ s[Len(s)] = BS
    /\ LexMode(s, Len(s)) = "double"

C7_TrailingBackslashInDouble ==
    (Returned /\ EndsWithBackslashInDouble(source)) =>
        /\ result.kind = "UnterminatedDoubleQuote"
        /\ \E k \in 1..(Len(source) - 1) :
              /\ source[k] = DQ
              /\ OpensQuote(source, k)
              /\ NeverClosed(source, k)
              /\ result.char_cursor = k - 1
              /\ result.byte_cursor = ByteLen(Prefix(source, k - 1))

\* such a call has failed, the opening double quote after a two-byte character
C7_Witness ==
    /\ Returned
    /\ EndsWithBackslashInDouble(source)
    /\ source[1] = EAcute
    /\ result = [kind |-> "UnterminatedDoubleQuote", char_cursor |-> 1, byte_cursor |-> 2]

---------------------------------------------------------------------------
(* C8: a backslash that is the last character of the input in plain mode  *)
(* is dropped: it appends nothing and raises no error, and unquote then   *)
(* returns Ok with the output accumulated before it.  The top-level       *)
(* escape step never fails.                                                *)

\* the scan is in plain mode and reads a backslash
ReadsTopBackslash == mode = "plain" /\ HasNext(cursor) /\ Peek(cursor) = BS

C8_TrailingBackslashDropped ==
    [][/\ (ReadsTopBackslash /\ cursor.idx + 1 = Len(source)) =>
              /\ acc' = acc
              /\ mode' = "plain"
              /\ cursor'.idx = Len(source)
       /\ ReadsTopBackslash => result' = NoResult
       /\ (mode = "plain" /\ cursor.idx = Len(source)) => result' = Ok(acc)]_vars

\* backslash, a, backslash has been unquoted to a
C8_Witness ==
    /\ Returned
    /\ source = <<BS, LetterA, BS>>
    /\ result = Ok(<<LetterA>>)

---------------------------------------------------------------------------
(* C9: in plain mode a backslash consumes exactly one following           *)
(* character: a newline appends nothing, any other character is appended  *)
(* verbatim without the backslash.  The escaped character is not          *)
(* interpreted: an escaped quote or backslash opens no mode and no        *)
(* further escape.                                                         *)

\* the scan is in plain mode and reads a backslash followed by esc_ch
ReadsTopEscape(esc_ch) ==
    /\ ReadsTopBackslash
    /\ HasNext(Advance(cursor, BS))
    /\ Peek(Advance(cursor, BS)) = esc_ch

C9_TopEscapeLiteral ==
    [][\A c \in Chars : ReadsTopEscape(c) =>
           /\ acc' = (IF c = NL THEN acc ELSE Append(acc, c))
           /\ cursor'.idx = cursor.idx + 2
           /\ mode' = "plain"
           /\ open' = open
           /\ result' = NoResult]_vars

\* an escaped single quote and an escaped double quote have been unquoted to literals
C9_Witness ==
    /\ Returned
    /\ source = <<BS, SQ, BS, DQ>>
    /\ result = Ok(<<SQ, DQ>>)

---------------------------------------------------------------------------
(* C10: inside double quotes a backslash followed by a double quote       *)
(* appends only the double quote and does not end the sequence; the       *)
(* sequence ends only at a double quote that is not escaped, and a double *)
(* quote after an escaped backslash does end it.                          *)

\* the last step of the scan read backslash backslash inside double quotes
JustReadEscapedBackslash ==
    /\ mode = "double"
    /\ consumed = 2
    /\ SubSeq(source, cursor.idx - 1, cursor.idx) = <<BS, BS>>

C10_EscapedQuoteDoesNotClose ==
    [][/\ ReadsDoubleEscape(DQ) => (acc' = Append(acc, DQ) /\ mode' = "double")
       /\ (mode = "double" /\ mode' = "plain") =>
              /\ Peek(cursor) = DQ
              /\ LexMode(source, cursor.idx + 1) = "double"
              /\ cursor'.idx = cursor.idx + 1
              /\ acc' = acc
       /\ (JustReadEscapedBackslash /\ HasNext(cursor) /\ Peek(cursor) = DQ) =>
              mode' = "plain"]_vars

\* double quote, backslash, double quote, double quote has been unquoted to a double quote
C10_Witness ==
    /\ Returned
    /\ source = <<DQ, BS, DQ, DQ>>
    /\ result = Ok(<<DQ>>)

---------------------------------------------------------------------------
(* C11: inside double quotes a backslash followed by a character other    *)
(* than double quote, backslash, backtick, dollar and newline is an       *)
(* ineffective escape: the backslash and the character are both appended, *)
(* in that order, and both are consumed.                                   *)

C11_UnknownEscapeKept ==
    [][\A c \in Chars \ {DQ, BS, BT, DL, NL} : ReadsDoubleEscape(c) =>
           /\ acc' = acc \o <<BS, c>>
           /\ cursor'.idx = cursor.idx + 2
           /\ mode' = "double"
           /\ result' = NoResult]_vars

\* double quote, a, backslash, a, double quote has been unquoted to a, backslash, a
C11_Witness ==
    /\ Returned
    /\ source = <<DQ, LetterA, BS, LetterA, DQ>>
    /\ result = Ok(<<LetterA, BS, LetterA>>)

---------------------------------------------------------------------------
(* C12: inside single quotes every character up to the next single quote  *)
(* is copied verbatim, backslashes, double quotes and newlines included;  *)
(* no escape is recognised, so a single quote after a backslash closes    *)
(* the sequence; the closing quote is consumed and produces no output.    *)

C12_SingleQuoteVerbatim ==
    [][/\ (mode = "single" /\ HasNext(cursor) /\ Peek(cursor) # SQ) =>
              /\ acc' = Append(acc, Peek(cursor))
              /\ cursor'.idx = cursor.idx + 1
              /\ mode' = "single"
              /\ result' = NoResult
       /\ (mode = "single" /\ HasNext(cursor) /\ Peek(cursor) = SQ) =>
              /\ acc' = acc
              /\ cursor'.idx = cursor.idx + 1
              /\ mode' = "plain"
              /\ result' = NoResult]_vars

\* a single-quoted backslash, double quote and newline: the quote after the
\* backslash-led run has closed the sequence
C12_Witness ==
    /\ Returned
    /\ source = <<SQ, DQ, NL, BS, SQ>>
    /\ result = Ok(<<DQ, NL, BS>>)

---------------------------------------------------------------------------
(* C13: the two coordinates of the cursor stay synchronised: the byte     *)
(* offset is the sum of the UTF-8 lengths of the characters consumed, the *)
(* character index their number.  So every error has byte_cursor >=       *)
(* char_cursor, greater exactly when a multi-byte character precedes the  *)
(* opening quote it names.                                                 *)

\* some character of s takes more than one byte
HasMultiByte(s) == \E i \in 1..Len(s) : Utf8Len(s[i]) > 1

C13_CursorSynchronised ==
    /\ cursor.idx <= Len(source)
    /\ cursor.pos = ByteLen(Prefix(source, cursor.idx))
    /\ (mode \in {"single", "double"}) => open.pos = ByteLen(Prefix(source, open.idx))
    /\ (Returned /\ IsErr(result)) =>
          /\ result.byte_cursor = ByteLen(Prefix(source, result.char_cursor))
          /\ result.byte_cursor >= result.char_cursor
          /\ result.byte_cursor > result.char_cursor
                <=> HasMultiByte(Prefix(source, result.char_cursor))
          /\ result.byte_cursor = result.char_cursor
                <=> ~HasMultiByte(Prefix(source, result.char_cursor))

\* an unterminated single quote after two two-byte characters has been reported
C13_Witness ==
    /\ Returned
    /\ Len(source) >= 3
    /\ Prefix(source, 3) = <<EAcute, EAcute, SQ>>
    /\ result = [kind |-> "UnterminatedSingleQuote", char_cursor |-> 2, byte_cursor |-> 4]

---------------------------------------------------------------------------
(* C14: the scan is single-pass and forward-only: every step, in every    *)
(* mode, that reads a character consumes one or two characters, the       *)
(* cursor never moves back, and unquote on an input of n characters       *)
(* returns Ok or Err after a bounded number of cursor reads.              *)

\* control is inside the scan of unquote()
Scanning == mode \in {"plain", "single", "double"}

\* a step of the scan moves the cursor forward by the one or two characters it consumes
ForwardStep ==
    /\ (Scanning /\ HasNext(cursor)) =>
          /\ cursor'.idx - cursor.idx \in {1, 2}
          /\ consumed' = cursor'.idx - cursor.idx
    /\ Scanning =>
          /\ cursor'.idx >= cursor.idx
          /\ cursor'.pos >= cursor.pos
          /\ cursor'.idx <= Len(source)
          /\ reads' > reads
    /\ (Scanning /\ ~HasNext(cursor)) => (mode' = "done" /\ result' # NoResult)

\* the scan is never stuck before it has returned
ScanProceeds == Scanning => ENABLED Next

\* the claim as stated: at most n + 1 cursor reads
C14_AtMostNPlusOneReads ==
    /\ []ScanProceeds
    /\ [][ForwardStep /\ reads' <= Len(source') + 1]_vars

\* as amended: at most n + 2 cursor reads, n + 2 exactly for an input that
\* ends with a backslash read in plain mode
C14_AtMostNPlusTwoReads ==
    /\ []ScanProceeds
    /\ [][/\ ForwardStep
          /\ reads' <= Len(source') + 2
          /\ mode' = "done" =>
                reads' = Len(source) + (IF EndMode(source) = "escape" THEN 2 ELSE 1)]_vars

\* a call on a five-character input that ends with a top-level backslash has
\* returned after seven cursor reads
C14_Witness ==
    /\ Returned
    /\ Len(source) = 5
    /\ source[5] = BS
    /\ IsOk(result)
    /\ reads = 7

---------------------------------------------------------------------------
(* C15: in plain mode a character other than single quote, double quote   *)
(* and backslash is appended verbatim; so unquote of an input with none   *)
(* of the three returns the input unchanged.                               *)

\* s holds no single quote, double quote or backslash
NoSpecials(s) == \A i \in 1..Len(s) : s[i] \notin {SQ, DQ, BS}

C15_PlainVerbatim ==
    [][/\ (mode = "plain" /\ HasNext(cursor) /\ Peek(cursor) \notin {SQ, DQ, BS}) =>
              /\ acc' = Append(acc, Peek(cursor))
              /\ cursor'.idx = cursor.idx + 1
              /\ mode' = "plain"
              /\ result' = NoResult
       /\ (mode' = "done" /\ NoSpecials(source)) => result' = Ok(source)]_vars

\* a, newline, dollar, backtick and a two-byte character have been returned unchanged
C15_Witness ==
    /\ Returned
    /\ source = <<LetterA, NL, DL, BT, EAcute>>
    /\ result = Ok(source)

---------------------------------------------------------------------------
(* C16: inside double quotes a character other than double quote and      *)
(* backslash is appended verbatim; a single quote there is a literal: it  *)
(* opens no single-quoted sequence and cannot cause                       *)
(* UnterminatedSingleQuote.                                                *)

C16_DoubleVerbatim ==
    [][/\ (mode = "double" /\ HasNext(cursor) /\ Peek(cursor) \notin {DQ, BS}) =>
              /\ acc' = Append(acc, Peek(cursor))
              /\ cursor'.idx = cursor.idx + 1
              /\ mode' = "double"
              /\ open' = open
              /\ result' = NoResult
       /\ mode = "double" =>
              /\ mode' # "single"
              /\ result'.kind # "UnterminatedSingleQuote"]_vars

\* double quote, a, single quote, a, double quote has been unquoted to a, single quote, a
C16_Witness ==
    /\ Returned
    /\ source = <<DQ, LetterA, SQ, LetterA, DQ>>
    /\ result = Ok(<<LetterA, SQ, LetterA>>)

---------------------------------------------------------------------------
(* C17: concatenation.  If unquote(a) = Ok(x), a does not end with a      *)
(* backslash read in plain mode, and unquote(b) = Ok(y), then             *)
(* unquote(a b) = Ok(x y); if instead unquote(b) fails with cursors       *)
(* (c, p), unquote(a b) fails with the same variant and cursors           *)
(* (c + chars(a), p + bytes(a)).                                           *)

\* s ends with a backslash read in plain mode
DanglingBackslash(s) == Len(s) >= 1 /\ s[Len(s)] = BS /\ LexMode(s, Len(s)) = "plain"

\* the error r moved right by the string s
Shifted(r, s) ==
    [kind |-> r.kind,
     char_cursor |-> r.char_cursor + Len(s),
     byte_cursor |-> r.byte_cursor + ByteLen(s)]

\* the running call is unquote(input) itself
DirectCall == quoted = NotCalled /\ mode # "start"

C17_Concatenation ==
    (DirectCall /\ Returned) =>
        \A k \in 0..Len(source) :
            LET a == Prefix(source, k)
                b == SubSeq(source, k + 1, Len(source))
                ra == UnquoteStr(a)
                rb == UnquoteStr(b)
            IN  (IsOk(ra) /\ ~DanglingBackslash(a)) =>
                    /\ IsOk(rb) => result = Ok(ra.value \o rb.value)
                    /\ IsErr(rb) => result = Shifted(rb, a)

\* a single-quoted two-byte character followed by an unterminated double-quoted a:
\* the error of the second part, moved by three characters and four bytes
C17_Witness ==
    /\ DirectCall
    /\ Returned
    /\ source = <<SQ, EAcute, SQ, DQ, LetterA>>
    /\ UnquoteStr(<<SQ, EAcute, SQ>>) = Ok(<<EAcute>>)
    /\ UnquoteStr(<<DQ, LetterA>>)
          = [kind |-> "UnterminatedDoubleQuote", char_cursor |-> 0, byte_cursor |-> 0]
    /\ result = [kind |-> "UnterminatedDoubleQuote", char_cursor |-> 3, byte_cursor |-> 4]

====
